---- MODULE Spec2Model ----
(***************************************************************************)
(* State machine of the research-paper analysis front end.                 *)
(*                                                                         *)
(* The repository holds two page components:                               *)
(*   src/app/page.tsx       the five-stage variant                         *)
(*                          (idle, uploading, conversation, analyzing,     *)
(*                          complete), with upload and resetAnalysis;      *)
(*   src/unnamed/part_000   the guided-pipeline variant                    *)
(*                          (upload, parsing, ..., complete), with the     *)
(*                          timer-driven simulate* chain.                  *)
(* `variant` says which component is mounted; it changes only when a       *)
(* render throws and the component is unmounted.                           *)
(*                                                                         *)
(* A step of the model is one synchronous run of a handler: from the       *)
(* event (or from the resolution of the awaited call) to the next await    *)
(* or to the end of the handler.  JavaScript runs such a stretch without   *)
(* interleaving, and the state setters it calls are applied together.      *)
(* Calls that are awaited are records in `calls`; they carry the values    *)
(* the handler's closure captured, which a later reset does not change.    *)
(*                                                                         *)
(* Texts are sequences of one-character strings, so that trim() and the    *)
(* template literals are computed; fixed texts are one token.              *)
(***************************************************************************)
EXTENDS Integers, Sequences, FiniteSets, TLC

VARIABLES
    variant,            \* "five" (page.tsx), "guided" (part_000) or "unmounted"
    pdfFile,            \* useState<File | null>
    doiInput,
    arxivInput,
    uploadedAssetIds,   \* page.tsx only
    chatMessages,
    userInput,
    isLoading,
    stage,              \* page.tsx: ProcessingStage
    documentInfo,
    understanding,      \* page.tsx
    keyTakeaways,       \* page.tsx
    recommendations,
    qualityScore,       \* page.tsx
    expandedSections,
    currentStage,       \* part_000: PipelineStage
    stagesCompleted,    \* part_000
    understandingResult,\* part_000
    summaryResult,      \* part_000
    qualityResult,      \* part_000
    showResults,        \* part_000
    calls,              \* awaited uploadFiles / callAIAgent calls
    timers,             \* part_000: pending setTimeout callbacks
    download            \* the file the step just taken handed to the browser

intake   == <<pdfFile, doiInput, arxivInput>>
results  == <<documentInfo, understanding, keyTakeaways, recommendations, qualityScore>>
resultsG == <<understandingResult, summaryResult, qualityResult>>
pipeline == <<currentStage, stagesCompleted, showResults, timers>>
\* the state the component holds
held     == <<variant, intake, uploadedAssetIds, chatMessages, userInput, isLoading,
              stage, results, expandedSections, resultsG, pipeline>>
vars     == <<held, calls, download>>

(***************************************************************************)
(* Bounds                                                                  *)
(***************************************************************************)
\* longest conversation log of the five-stage component: sendMessage is not
\* offered beyond it
MaxLog == 4
\* the same for the guided-pipeline component
MaxLogG == 6

(***************************************************************************)
(* Values                                                                  *)
(***************************************************************************)
Null      == "null"
Undefined == "undefined"
\* an absent text (user_message missing from the payload)
NoText    == <<"<undefined>">>

\* no file was handed to the browser
NoDownload == [name |-> <<>>, content |-> <<>>]

PdfMime == "application/pdf"
Files   == {"paper.pdf", "notes.txt"}
FileType(f) == IF f = "paper.pdf" THEN PdfMime ELSE "text/plain"

\* what the user can type into the DOI, arXiv and message fields
DoiValues   == {<<>>, <<" ">>}
ArxivValues == {<<>>, <<"x">>}
DraftValues == {<<>>, <<" ">>, <<"p">>}
\* the text a quick-prompt button puts into the message field
QuickPrompt == <<"p">>

\* asset id lists the upload transport can return
AssetIdLists == {<<"a1">>, <<"a2", "a3">>}

Sections == {"problem", "methodology"}

StageOrder == <<"idle", "uploading", "conversation", "analyzing", "complete">>
PipelineOrder == <<"upload", "parsing", "understanding", "summarizing",
                   "finding_papers", "quality_check", "complete">>

RECURSIVE IndexOf(_, _, _)
IndexOf(seq, x, i) ==
    IF i > Len(seq) THEN 0
    ELSE IF seq[i] = x THEN i ELSE IndexOf(seq, x, i + 1)

StageRank(s)    == IndexOf(StageOrder, s, 1)
PipelineRank(s) == IndexOf(PipelineOrder, s, 1)

Range(seq) == {seq[i] : i \in DOMAIN seq}

(***************************************************************************)
(* String.prototype.trim                                                   *)
(***************************************************************************)
RECURSIVE TrimStart(_)
TrimStart(s) ==
    IF s = <<>> THEN <<>>
    ELSE IF Head(s) = " " THEN TrimStart(Tail(s)) ELSE s

RECURSIVE TrimEnd(_)
TrimEnd(s) ==
    IF s = <<>> THEN <<>>
    ELSE IF s[Len(s)] = " " THEN TrimEnd(SubSeq(s, 1, Len(s) - 1)) ELSE s

Trim(s) == TrimEnd(TrimStart(s))

\* JavaScript truthiness of a string
Truthy(s) == s # <<>> /\ s # NoText

(***************************************************************************)
(* Conversation turns and the fixed texts of the two components            *)
(***************************************************************************)
Turn(role, content) == [role |-> role, content |-> content]

\* page.tsx:195, the synthesized opening message
InitialMessage(f, doi, arxiv) ==
    <<"I've uploaded a research paper">>
    \o (IF f # Null THEN <<" (PDF: ", f, ")">> ELSE <<>>)
    \o (IF doi # <<>> THEN <<" (DOI: ">> \o doi \o <<")">> ELSE <<>>)
    \o (IF arxiv # <<>> THEN <<" (arXiv: ">> \o arxiv \o <<")">> ELSE <<>>)
    \o <<". Please help me analyze it.">>

\* part_000:234
InitialMessageG(f, doi, arxiv) ==
    <<"I've uploaded a paper">>
    \o (IF f # Null THEN <<" (PDF: ", f, ")">> ELSE <<>>)
    \o (IF doi # <<>> THEN <<" (DOI: ">> \o doi \o <<")">> ELSE <<>>)
    \o (IF arxiv # <<>> THEN <<" (arXiv: ">> \o arxiv \o <<")">> ELSE <<>>)
    \o <<". Please help me analyze it.">>

UploadFailedText(err)  == <<"Failed to upload PDF: ", err, ". Please try again.">>
FocusPromptText        == <<"What aspects of the paper would you like me to focus on?">>
StartIssueText         == <<"I encountered an issue starting the analysis. Please try again.">>
UploadErrorText        == <<"An error occurred during upload. Please try again.">>
ProcessingText         == <<"Processing your request...">>
RequestIssueText       == <<"I encountered an issue processing your request. Please try again.">>
ErrorText              == <<"An error occurred. Please try again.">>

\* a || b on texts
OrElse(a, b) == IF Truthy(a) THEN a ELSE b

(***************************************************************************)
(* What the collaborators can answer                                       *)
(***************************************************************************)
\* uploadFiles: resolves with success and ids, resolves with an error, or rejects
UploadResults ==
    {[kind |-> "resolved", success |-> TRUE, asset_ids |-> ids, error |-> ""] :
        ids \in AssetIdLists}
    \cup {[kind |-> "resolved", success |-> FALSE, asset_ids |-> <<>>, error |-> "disk full"]}
    \cup {[kind |-> "rejected", success |-> FALSE, asset_ids |-> <<>>, error |-> ""]}

Opt(v)  == [defined |-> TRUE, value |-> v]
None(d) == [defined |-> FALSE, value |-> d]

\* aggregated_results.summary: absent, without key_points, or with them
Summaries ==
    {[defined |-> FALSE, key_points |-> None(<<>>)],
     [defined |-> TRUE,  key_points |-> None(<<>>)],
     [defined |-> TRUE,  key_points |-> Opt(<<"k1", "k2">>)]}

\* aggregated_results.quality_validation: absent, without quality_score, or with it
Validations ==
    {[defined |-> FALSE, quality_score |-> Undefined],
     [defined |-> TRUE,  quality_score |-> Undefined],
     [defined |-> TRUE,  quality_score |-> "0.92"]}

\* recommendations are modelled by their rank
RecommendationLists == {None(<<>>), Opt(<<1, 2>>), Opt(<<2, 1>>)}

NoAggregated ==
    [defined |-> FALSE, document_info |-> Undefined, paper_analysis |-> Undefined,
     summary |-> [defined |-> FALSE, key_points |-> None(<<>>)],
     recommendations |-> None(<<>>),
     quality_validation |-> [defined |-> FALSE, quality_score |-> Undefined]]

\* the sub-fields an aggregated_results object carries
FieldsPresent(a) ==
    {f \in {"document_info", "paper_analysis"} : a[f] # Undefined}
    \cup {f \in {"summary", "recommendations", "quality_validation"} : a[f].defined}

AllFields ==
    {"document_info", "paper_analysis", "summary", "recommendations", "quality_validation"}

\* aggregated_results: absent; or an object with no sub-field, with one
\* sub-field (a partial payload), or with all of them
AggregatedResults ==
    {NoAggregated} \cup
    {a \in [defined : {TRUE},
            document_info : {Undefined, "D1"},
            paper_analysis : {Undefined, "U1"},
            summary : Summaries,
            recommendations : RecommendationLists,
            quality_validation : Validations] :
        \/ Cardinality(FieldsPresent(a)) <= 1
        \/ /\ FieldsPresent(a) = AllFields
           /\ a.summary.key_points.defined
           /\ a.quality_validation.quality_score # Undefined}

\* response.result of the coordinator.  aggregated_results is read only by
\* page.tsx and next_action only by part_000, so the payloads vary one of the two.
Payloads ==
    [defined : {TRUE},
     user_message : {NoText, <<"u">>},
     next_action : {Undefined},
     aggregated_results : AggregatedResults]
    \cup
    [defined : {TRUE},
     user_message : {NoText, <<"u">>},
     next_action : {"trigger_ingestion"},
     aggregated_results : {NoAggregated}]

\* response.result absent
NoPayload ==
    [defined |-> FALSE, user_message |-> NoText, next_action |-> Undefined,
     aggregated_results |-> NoAggregated]

\* callAIAgent: rejects, or resolves with {success, response: {status, result}}
Replies ==
    {[kind |-> "rejected", success |-> FALSE, status |-> "error", result |-> NoPayload]}
    \cup {[kind |-> "resolved", success |-> FALSE, status |-> "error", result |-> NoPayload]}
    \cup {[kind |-> "resolved", success |-> TRUE, status |-> "error", result |-> NoPayload]}
    \cup {[kind |-> "resolved", success |-> TRUE, status |-> "success", result |-> p] :
            p \in Payloads \cup {NoPayload}}

\* result.success && result.response.status === 'success'
ReplyOk(r) == r.kind = "resolved" /\ r.success /\ r.status = "success"

\* The success branch reads result.response.result.user_message inside the
\* updater it passes to setChatMessages (page.tsx:212-214 and 261-263,
\* part_000:244-246 and 272-274).  When result is absent the updater throws a
\* TypeError while React renders the component, outside the handler's try
\* block, and the component is unmounted.
RenderThrows(r) == ReplyOk(r) /\ ~r.result.defined

\* the component mounted once the handler has run on the reply r
MountedAfter(r) == IF RenderThrows(r) THEN "unmounted" ELSE variant

(***************************************************************************)
(* Awaited calls                                                           *)
(***************************************************************************)
\* an awaited call with what the handler's closure holds
Call(kind, handler, f, doi, arxiv, assets, utterance) ==
    [kind |-> kind, handler |-> handler, file |-> f, doi |-> doi, arxiv |-> arxiv,
     assets |-> assets, utterance |-> utterance]

Without(seq, i) == SubSeq(seq, 1, i - 1) \o SubSeq(seq, i + 1, Len(seq))

UploadsInFlight      == {i \in DOMAIN calls : calls[i].kind = "upload"}
CoordinatorsInFlight == {i \in DOMAIN calls : calls[i].kind = "coordinator"}

(***************************************************************************)
(* Initial state: the useState defaults of the mounted component           *)
(***************************************************************************)
Init ==
    /\ variant \in {"five", "guided"}
    /\ pdfFile = Null
    /\ doiInput = <<>>
    /\ arxivInput = <<>>
    /\ uploadedAssetIds = <<>>
    /\ chatMessages = <<>>
    /\ userInput = <<>>
    /\ isLoading = FALSE
    /\ stage = "idle"
    /\ documentInfo = Null
    /\ understanding = Null
    /\ keyTakeaways = <<>>
    /\ recommendations = <<>>
    /\ qualityScore = Null
    /\ expandedSections = {"problem"}
    /\ currentStage = "upload"
    /\ stagesCompleted = {}
    /\ understandingResult = Null
    /\ summaryResult = Null
    /\ qualityResult = Null
    /\ showResults = FALSE
    /\ calls = <<>>
    /\ timers = <<>>
    /\ download = NoDownload

Five   == variant = "five"
Guided == variant = "guided"
Mounted == Five \/ Guided

\* an upload zone that would stay rendered at every stage
UploadZoneShown_AtEveryStage == Mounted

(***************************************************************************)
(* What the rendered page offers                                           *)
(***************************************************************************)
\* the upload card: page.tsx:431 {stage === 'idle' && ...}, part_000:633
UploadZoneShown ==
    /\ Mounted
    /\ IF Five THEN stage = "idle" ELSE currentStage = "upload"

\* the conversation panel: page.tsx:544 {stage !== 'idle' && ...}, part_000:713
ConversationShown ==
    /\ Mounted
    /\ IF Five THEN stage # "idle" ELSE showResults

\* !pdfFile && !doiInput && !arxivInput (page.tsx:166 and 525, part_000:225 and 704)
NoReference == pdfFile = Null /\ doiInput = <<>> /\ arxivInput = <<>>

\* a variant of AnalyzeDisabled that forgets the loading flag
AnalyzeDisabled_IgnoresLoading == NoReference

\* the Analyze Paper button's disabled attribute
AnalyzeDisabled ==
    IF Five THEN NoReference \/ isLoading ELSE NoReference

\* the message field's disabled attribute (page.tsx:603, part_000:748)
DraftDisabled == isLoading

\* the quick-prompt buttons: disabled={isLoading} in page.tsx:619, never in part_000:762
QuickPromptDisabled == IF Five THEN isLoading ELSE FALSE

\* The conversation is followed up to the log bound: while the log can still take
\* the user turn and the assistant turn of one more exchange.  Beyond it neither
\* the message field nor sendMessage is modelled.
RoomInLog ==
    Len(chatMessages) + 2 <= (IF Five THEN MaxLog ELSE MaxLogG)

\* the disclosure buttons are inside the summary card (page.tsx:690, part_000:806)
SummaryCardShown ==
    /\ Mounted
    /\ IF Five THEN stage # "idle" /\ understanding # Null
       ELSE showResults /\ summaryResult # Null /\ understandingResult # Null

(***************************************************************************)
(* Form handlers (both components)                                         *)
(***************************************************************************)
\* the held file once handleFileChange has run with f (page.tsx:133-137)
HeldAfterFileChange(f) == f

\* handleFileChange: the picked file replaces the held one
HandleFileChange ==
    /\ UploadZoneShown
    /\ \E f \in Files : pdfFile' = HeldAfterFileChange(f)
    /\ download' = NoDownload
    /\ UNCHANGED <<variant, doiInput, arxivInput, uploadedAssetIds, chatMessages, userInput,
                   isLoading, stage, results, expandedSections, resultsG, pipeline, calls>>

\* a drop handler that would take a file of any type
HeldAfterDrop_AnyType(f) == f

\* the held file once handleDrop has run with f (page.tsx:120-131)
HeldAfterDrop(f) == IF FileType(f) = PdfMime THEN f ELSE pdfFile

\* handleDrop: only a PDF is taken
HandleDrop ==
    /\ UploadZoneShown
    /\ \E f \in Files : pdfFile' = HeldAfterDrop(f)
    /\ download' = NoDownload
    /\ UNCHANGED <<variant, doiInput, arxivInput, uploadedAssetIds, chatMessages, userInput,
                   isLoading, stage, results, expandedSections, resultsG, pipeline, calls>>

SetDoiInput ==
    /\ UploadZoneShown
    /\ \E v \in DoiValues : doiInput' = v
    /\ download' = NoDownload
    /\ UNCHANGED <<variant, pdfFile, arxivInput, uploadedAssetIds, chatMessages, userInput,
                   isLoading, stage, results, expandedSections, resultsG, pipeline, calls>>

SetArxivInput ==
    /\ UploadZoneShown
    /\ \E v \in ArxivValues : arxivInput' = v
    /\ download' = NoDownload
    /\ UNCHANGED <<variant, pdfFile, doiInput, uploadedAssetIds, chatMessages, userInput,
                   isLoading, stage, results, expandedSections, resultsG, pipeline, calls>>

\* typing into the message field
SetUserInput ==
    /\ ConversationShown
    /\ ~DraftDisabled
    /\ RoomInLog
    /\ \E v \in DraftValues : userInput' = v
    /\ download' = NoDownload
    /\ UNCHANGED <<variant, intake, uploadedAssetIds, chatMessages,
                   isLoading, stage, results, expandedSections, resultsG, pipeline, calls>>

\* a quick-prompt button
ClickQuickPrompt ==
    /\ ConversationShown
    /\ ~QuickPromptDisabled
    /\ RoomInLog
    /\ userInput' = QuickPrompt
    /\ download' = NoDownload
    /\ UNCHANGED <<variant, intake, uploadedAssetIds, chatMessages,
                   isLoading, stage, results, expandedSections, resultsG, pipeline, calls>>

\* a toggle that would only ever expand
Toggled_OnlyExpands(set, section) == set \cup {section}

\* a toggle that would collapse every other section
Toggled_CollapsesOthers(set, section) == {section}

\* toggleSection: flip the membership of one key
Toggled(set, section) ==
    IF section \in set THEN set \ {section} ELSE set \cup {section}

ToggleSection ==
    /\ SummaryCardShown
    /\ \E k \in Sections : expandedSections' = Toggled(expandedSections, k)
    /\ download' = NoDownload
    /\ UNCHANGED <<variant, intake, uploadedAssetIds, chatMessages, userInput,
                   isLoading, stage, results, resultsG, pipeline, calls>>

(***************************************************************************)
(* The setStage calls of one handler run                                   *)
(***************************************************************************)
\* the stage after the setStage calls `writes`, made in this order, are applied
StageAfter(writes) ==
    IF writes = <<>> THEN stage ELSE writes[Len(writes)]

\* a variant of ResetStageWrites that leaves the stage alone
ResetStageWrites_None == <<>>

\* resetAnalysis (page.tsx:156)
ResetStageWrites == <<"idle">>

\* a submission that would issue its call without the setStage('conversation')
\* of page.tsx:193
AnalyzeStartStageWrites_UploadingOnly == <<"uploading">>

\* analyzeDocument up to its first await (page.tsx:169, 193)
AnalyzeStartStageWrites ==
    IF pdfFile # Null THEN <<"uploading">> ELSE <<"uploading", "conversation">>

\* analyzeDocument after the upload has resolved (page.tsx:187, 193)
UploadedStageWrites(r) ==
    IF r.success THEN <<"conversation">> ELSE <<"idle">>

\* analyzeDocument's catch block (page.tsx:234)
CatchStageWrites == <<"idle">>

\* a variant of InitialReplyStageWrites that also returns to idle on a reply
\* that is not successful
InitialReplyStageWrites_IdleOnIssue(r) ==
    IF ReplyOk(r) THEN <<>> ELSE <<"idle">>

\* analyzeDocument after the first coordinator call has settled: none unless
\* the call rejected (page.tsx:209-225)
InitialReplyStageWrites(r) ==
    IF r.kind = "rejected" THEN CatchStageWrites ELSE <<>>

\* sendMessage up to its await (page.tsx:238-255): none
SendStageWrites == <<>>

\* an aggregator that would not make its closing setStage('complete') call
AggregatorStageWrites_LeavesAnalyzing == <<"analyzing">>

\* the aggregator in sendMessage (page.tsx:269, 296)
AggregatorStageWrites == <<"analyzing", "complete">>

\* a variant of SendReplyStageWrites that runs the aggregator's stage writes on
\* every successful reply
SendReplyStageWrites_EverySuccess(r) ==
    IF ReplyOk(r) THEN AggregatorStageWrites ELSE <<>>

\* sendMessage after its call has settled: the aggregator's, when the reply is
\* successful and carries aggregated_results (page.tsx:257, 268)
SendReplyStageWrites(r) ==
    IF ReplyOk(r) /\ r.result.aggregated_results.defined
    THEN AggregatorStageWrites ELSE <<>>

(***************************************************************************)
(* page.tsx: resetAnalysis                                                 *)
(***************************************************************************)
\* the New Analysis button is rendered while stage !== 'idle' (page.tsx:366);
\* isLoading and the awaited calls are not touched
ResetAnalysis ==
    /\ Five
    /\ stage # "idle"
    /\ pdfFile' = Null
    /\ doiInput' = <<>>
    /\ arxivInput' = <<>>
    /\ uploadedAssetIds' = <<>>
    /\ chatMessages' = <<>>
    /\ userInput' = <<>>
    /\ stage' = StageAfter(ResetStageWrites)
    /\ documentInfo' = Null
    /\ understanding' = Null
    /\ keyTakeaways' = <<>>
    /\ recommendations' = <<>>
    /\ qualityScore' = Null
    /\ expandedSections' = {"problem"}
    /\ download' = NoDownload
    /\ UNCHANGED <<variant, isLoading, resultsG, pipeline, calls>>

(***************************************************************************)
(* page.tsx: analyzeDocument                                               *)
(***************************************************************************)
\* from the click to the first await: the upload when a file is held,
\* the coordinator call otherwise
AnalyzeDocumentStart ==
    IF NoReference
    THEN download' = NoDownload /\ UNCHANGED <<held, calls>>
    ELSE /\ isLoading' = TRUE
         /\ stage' = StageAfter(AnalyzeStartStageWrites)
         /\ IF pdfFile # Null
            THEN /\ calls' = Append(calls, Call("upload", "analyzeDocument",
                                                pdfFile, doiInput, arxivInput, <<>>, <<>>))
                 /\ UNCHANGED chatMessages
            ELSE /\ chatMessages' =
                        <<Turn("user", InitialMessage(pdfFile, doiInput, arxivInput))>>
                 /\ calls' = Append(calls, Call("coordinator", "analyzeDocument",
                                                pdfFile, doiInput, arxivInput, <<>>,
                                                InitialMessage(pdfFile, doiInput, arxivInput)))
         /\ download' = NoDownload
         /\ UNCHANGED <<variant, intake, uploadedAssetIds, userInput, results,
                        expandedSections, resultsG, pipeline>>

\* a click on Analyze Paper
AnalyzeDocument ==
    /\ Five
    /\ UploadZoneShown
    /\ ~AnalyzeDisabled
    /\ AnalyzeDocumentStart

\* the exit of the catch block (page.tsx:226-235)
AnalyzeDocumentCatch(i) ==
    /\ chatMessages' = <<Turn("assistant", UploadErrorText)>>
    /\ isLoading' = FALSE
    /\ stage' = StageAfter(CatchStageWrites)
    /\ calls' = Without(calls, i)
    /\ UNCHANGED uploadedAssetIds

\* uploadFiles has settled with r: page.tsx:177-207
AnalyzeDocumentUploaded(i, r) ==
    LET c == calls[i] IN
    IF r.kind = "rejected" THEN AnalyzeDocumentCatch(i)
    ELSE /\ stage' = StageAfter(UploadedStageWrites(r))
         /\ IF r.success
            THEN /\ uploadedAssetIds' = r.asset_ids
                 /\ chatMessages' = <<Turn("user", InitialMessage(c.file, c.doi, c.arxiv))>>
                 /\ calls' = Append(Without(calls, i),
                                    Call("coordinator", "analyzeDocument",
                                         c.file, c.doi, c.arxiv, r.asset_ids,
                                         InitialMessage(c.file, c.doi, c.arxiv)))
                 /\ UNCHANGED isLoading
            ELSE /\ chatMessages' = <<Turn("assistant", UploadFailedText(r.error))>>
                 /\ isLoading' = FALSE
                 /\ calls' = Without(calls, i)
                 /\ UNCHANGED uploadedAssetIds

\* the awaited upload i settles with r
UploadSettlesWith(i, r) ==
    /\ Five
    /\ i \in UploadsInFlight
    /\ AnalyzeDocumentUploaded(i, r)
    /\ download' = NoDownload
    /\ UNCHANGED <<variant, intake, userInput, results, expandedSections, resultsG, pipeline>>

UploadSettles ==
    \E i \in DOMAIN calls : \E r \in UploadResults : UploadSettlesWith(i, r)

\* the first coordinator call has settled with r: page.tsx:209-225
AnalyzeDocumentReplied(i, r) ==
    IF r.kind = "rejected" THEN AnalyzeDocumentCatch(i)
    ELSE IF RenderThrows(r)
    THEN /\ calls' = Without(calls, i)
         /\ UNCHANGED <<chatMessages, isLoading, stage, uploadedAssetIds>>
    ELSE /\ chatMessages' =
              Append(chatMessages,
                     Turn("assistant",
                          IF ReplyOk(r) THEN OrElse(r.result.user_message, FocusPromptText)
                          ELSE StartIssueText))
         /\ isLoading' = FALSE
         /\ stage' = StageAfter(InitialReplyStageWrites(r))
         /\ calls' = Without(calls, i)
         /\ UNCHANGED uploadedAssetIds

\* the awaited first coordinator call i settles with r
InitialTurnSettlesWith(i, r) ==
    /\ Five
    /\ i \in CoordinatorsInFlight
    /\ calls[i].handler = "analyzeDocument"
    /\ AnalyzeDocumentReplied(i, r)
    /\ download' = NoDownload
    /\ variant' = MountedAfter(r)
    /\ UNCHANGED <<intake, userInput, results, expandedSections, resultsG, pipeline>>

InitialTurnSettles ==
    \E i \in DOMAIN calls : \E r \in Replies : InitialTurnSettlesWith(i, r)

(***************************************************************************)
(* page.tsx: sendMessage                                                   *)
(***************************************************************************)
\* a variant of SendRejected that does not trim the draft
SendRejected_NoTrim == userInput = <<>> \/ isLoading

\* !userInput.trim() || isLoading  (page.tsx:239, part_000:258)
SendRejected == Trim(userInput) = <<>> \/ isLoading

\* from the event to the await (page.tsx:238-255)
SendMessageStart ==
    IF SendRejected
    THEN download' = NoDownload /\ UNCHANGED <<held, calls>>
    ELSE /\ userInput' = <<>>
         /\ chatMessages' = Append(chatMessages, Turn("user", Trim(userInput)))
         /\ isLoading' = TRUE
         /\ stage' = StageAfter(SendStageWrites)
         /\ calls' = Append(calls, Call("coordinator", "sendMessage", Null, <<>>, <<>>,
                                        uploadedAssetIds, Trim(userInput)))
         /\ download' = NoDownload
         /\ UNCHANGED <<variant, intake, uploadedAssetIds, results,
                        expandedSections, resultsG, pipeline>>

\* Enter in the message field or a click on Send
SendMessage ==
    /\ Five
    /\ ConversationShown
    /\ RoomInLog
    /\ SendMessageStart

\* the Result Aggregator (page.tsx:268-297): what each held result becomes
\* for the aggregated_results object a
\* a variant of AggregatedDocumentInfo that stores the sub-field unconditionally
AggregatedDocumentInfo_Unconditional(a) ==
    IF a.document_info # Undefined THEN a.document_info ELSE Null

AggregatedDocumentInfo(a) ==
    IF a.document_info # Undefined THEN a.document_info ELSE documentInfo

AggregatedUnderstanding(a) ==
    IF a.paper_analysis # Undefined THEN a.paper_analysis ELSE understanding

\* an aggregator that would keep the held takeaways when key_points is missing
AggregatedKeyTakeaways_KeepsWithoutPoints(a) ==
    IF a.summary.defined /\ a.summary.key_points.defined
    THEN a.summary.key_points.value
    ELSE keyTakeaways

\* summary.key_points || []
AggregatedKeyTakeaways(a) ==
    IF a.summary.defined
    THEN (IF a.summary.key_points.defined THEN a.summary.key_points.value ELSE <<>>)
    ELSE keyTakeaways

AggregatedRecommendations(a) ==
    IF a.recommendations.defined THEN a.recommendations.value ELSE recommendations

AggregatedQualityScore(a) ==
    IF a.quality_validation.defined THEN a.quality_validation.quality_score
    ELSE qualityScore

\* the coordinator call of sendMessage has settled with r (page.tsx:257-315)
SendMessageReplied(i, r) ==
    IF RenderThrows(r)
    THEN /\ calls' = Without(calls, i)
         /\ UNCHANGED <<chatMessages, isLoading, stage, results>>
    ELSE
    /\ calls' = Without(calls, i)
    /\ isLoading' = FALSE
    /\ stage' = StageAfter(SendReplyStageWrites(r))
    /\ IF r.kind = "rejected"
       THEN /\ chatMessages' = Append(chatMessages, Turn("assistant", ErrorText))
            /\ UNCHANGED results
       ELSE IF ~ReplyOk(r)
       THEN /\ chatMessages' = Append(chatMessages, Turn("assistant", RequestIssueText))
            /\ UNCHANGED results
       ELSE /\ chatMessages' =
                 Append(chatMessages,
                        Turn("assistant", OrElse(r.result.user_message, ProcessingText)))
            /\ IF r.result.aggregated_results.defined
               THEN LET a == r.result.aggregated_results IN
                    /\ documentInfo' = AggregatedDocumentInfo(a)
                    /\ understanding' = AggregatedUnderstanding(a)
                    /\ keyTakeaways' = AggregatedKeyTakeaways(a)
                    /\ recommendations' = AggregatedRecommendations(a)
                    /\ qualityScore' = AggregatedQualityScore(a)
               ELSE UNCHANGED results

\* the awaited coordinator call i of sendMessage settles with r
LaterTurnSettlesWith(i, r) ==
    /\ Five
    /\ i \in CoordinatorsInFlight
    /\ calls[i].handler = "sendMessage"
    /\ SendMessageReplied(i, r)
    /\ download' = NoDownload
    /\ variant' = MountedAfter(r)
    /\ UNCHANGED <<intake, uploadedAssetIds, userInput, expandedSections,
                   resultsG, pipeline>>

LaterTurnSettles ==
    \E i \in DOMAIN calls : \E r \in Replies : LaterTurnSettlesWith(i, r)

(***************************************************************************)
(* part_000: the guided-pipeline component                                 *)
(***************************************************************************)
\* a markStageComplete that would overwrite the set
MarkStageComplete_Overwrites(set, s) == {s}

\* markStageComplete (part_000:220-222)
MarkStageComplete(set, s) == set \cup {s}

\* a pending setTimeout callback
Timer(cb) == [cb |-> cb]

\* analyzeForm up to its await (part_000:224-239)
AnalyzeFormStart ==
    IF NoReference
    THEN download' = NoDownload /\ UNCHANGED <<held, calls>>
    ELSE /\ isLoading' = TRUE
         /\ currentStage' = "parsing"
         /\ showResults' = TRUE
         /\ chatMessages' = <<Turn("user", InitialMessageG(pdfFile, doiInput, arxivInput))>>
         /\ calls' = Append(calls, Call("coordinator", "analyzeForm",
                                        pdfFile, doiInput, arxivInput, <<>>,
                                        InitialMessageG(pdfFile, doiInput, arxivInput)))
         /\ download' = NoDownload
         /\ UNCHANGED <<variant, intake, uploadedAssetIds, userInput, stage, results,
                        expandedSections, resultsG, stagesCompleted, timers>>

AnalyzeForm ==
    /\ Guided
    /\ UploadZoneShown
    /\ ~AnalyzeDisabled
    /\ AnalyzeFormStart

\* whether analyzeForm clears the loading flag when its call has settled with r:
\* inside the success branch (part_000:249) and in the catch block (part_000:253)
AnalyzeFormClearsLoading(r) == r.kind = "rejected" \/ ReplyOk(r)

\* the call of analyzeForm has settled with r (part_000:241-254)
AnalyzeFormReplied(i, r) ==
    /\ calls' = Without(calls, i)
    /\ chatMessages' =
          IF ReplyOk(r) /\ ~RenderThrows(r)
          THEN Append(chatMessages, Turn("assistant", r.result.user_message))
          ELSE chatMessages
    /\ isLoading' =
          IF AnalyzeFormClearsLoading(r) /\ ~RenderThrows(r) THEN FALSE ELSE isLoading

AnalyzeFormSettlesWith(i, r) ==
    /\ Guided
    /\ i \in CoordinatorsInFlight
    /\ calls[i].handler = "analyzeForm"
    /\ AnalyzeFormReplied(i, r)
    /\ download' = NoDownload
    /\ variant' = MountedAfter(r)
    /\ UNCHANGED <<intake, uploadedAssetIds, userInput, stage, results,
                   expandedSections, resultsG, pipeline>>

AnalyzeFormSettles ==
    \E i \in DOMAIN calls : \E r \in Replies : AnalyzeFormSettlesWith(i, r)

\* sendMessage up to its await (part_000:257-267): the message is not trimmed
SendMessageStartG ==
    IF SendRejected
    THEN download' = NoDownload /\ UNCHANGED <<held, calls>>
    ELSE /\ userInput' = <<>>
         /\ chatMessages' = Append(chatMessages, Turn("user", userInput))
         /\ isLoading' = TRUE
         /\ calls' = Append(calls, Call("coordinator", "sendMessage", Null, <<>>, <<>>,
                                        <<>>, userInput))
         /\ download' = NoDownload
         /\ UNCHANGED <<variant, intake, uploadedAssetIds, stage, results,
                        expandedSections, resultsG, pipeline>>

SendMessageG ==
    /\ Guided
    /\ ConversationShown
    /\ RoomInLog
    /\ SendMessageStartG

\* the call of sendMessage has settled with r (part_000:269-288)
SendMessageRepliedG(i, r) ==
    IF RenderThrows(r)
    THEN /\ calls' = Without(calls, i)
         /\ UNCHANGED <<chatMessages, isLoading, currentStage, timers>>
    ELSE
    /\ calls' = Without(calls, i)
    /\ isLoading' = FALSE
    /\ IF ReplyOk(r)
       THEN /\ chatMessages' = Append(chatMessages, Turn("assistant", r.result.user_message))
            /\ IF r.result.next_action = "trigger_ingestion"
               THEN /\ currentStage' = "parsing"
                    /\ timers' = Append(timers, Timer("simulateDocumentIngestion"))
               ELSE UNCHANGED <<currentStage, timers>>
       ELSE UNCHANGED <<chatMessages, currentStage, timers>>

SendMessageSettlesWithG(i, r) ==
    /\ Guided
    /\ i \in CoordinatorsInFlight
    /\ calls[i].handler = "sendMessage"
    /\ SendMessageRepliedG(i, r)
    /\ download' = NoDownload
    /\ variant' = MountedAfter(r)
    /\ UNCHANGED <<intake, uploadedAssetIds, userInput, stage, results,
                   expandedSections, resultsG, stagesCompleted, showResults>>

SendMessageSettlesG ==
    \E i \in DOMAIN calls : \E r \in Replies : SendMessageSettlesWithG(i, r)

\* a chain whose simulateSummarization would not mark its stage complete
SimulateSteps_SummarizingUnmarked ==
    [simulateDocumentIngestion |->
        [done |-> "parsing", next |-> "understanding",
         then |-> <<Timer("simulateUnderstanding")>>],
     simulateUnderstanding |->
        [done |-> "understanding", next |-> "summarizing",
         then |-> <<Timer("simulateSummarization")>>],
     simulateSummarization |->
        [done |-> "understanding", next |-> "finding_papers",
         then |-> <<Timer("simulateRecommendations")>>],
     simulateRecommendations |->
        [done |-> "finding_papers", next |-> "quality_check",
         then |-> <<Timer("simulateQualityControl")>>],
     simulateQualityControl |->
        [done |-> "quality_check", next |-> "complete", then |-> <<>>]]

\* the simulate* chain (part_000:291-518): for each callback, the stage it
\* completes, the stage it makes current, and the timer it sets
SimulateSteps ==
    [simulateDocumentIngestion |->
        [done |-> "parsing", next |-> "understanding",
         then |-> <<Timer("simulateUnderstanding")>>],
     simulateUnderstanding |->
        [done |-> "understanding", next |-> "summarizing",
         then |-> <<Timer("simulateSummarization")>>],
     simulateSummarization |->
        [done |-> "summarizing", next |-> "finding_papers",
         then |-> <<Timer("simulateRecommendations")>>],
     simulateRecommendations |->
        [done |-> "finding_papers", next |-> "quality_check",
         then |-> <<Timer("simulateQualityControl")>>],
     simulateQualityControl |->
        [done |-> "quality_check", next |-> "complete", then |-> <<>>]]

MockDocument       == "Attention Is All You Need"
MockUnderstanding  == "mockUnderstanding"
MockSummary        == "mockSummary"
MockRecommendations == <<1, 2, 3, 4, 5>>
MockQuality        == "mockQuality"

\* The timers that can expire next.  When two chains run, which of two timers
\* with different callbacks expires first depends on when the replies that
\* started the chains arrived; a timer never overtakes an earlier one with the
\* same callback (same delay, set earlier).
ExpirableTimers ==
    {i \in DOMAIN timers : \A j \in DOMAIN timers : timers[j].cb = timers[i].cb => i <= j}

\* an expired timer runs its callback
Simulate(i) ==
    LET cb == timers[i].cb
        step == SimulateSteps[cb]
    IN  /\ stagesCompleted' = MarkStageComplete(stagesCompleted, step.done)
        /\ currentStage' = step.next
        /\ timers' = Without(timers, i) \o step.then
        /\ documentInfo' =
              IF cb = "simulateDocumentIngestion" THEN MockDocument ELSE documentInfo
        /\ understandingResult' =
              IF cb = "simulateUnderstanding" THEN MockUnderstanding ELSE understandingResult
        /\ summaryResult' =
              IF cb = "simulateSummarization" THEN MockSummary ELSE summaryResult
        /\ recommendations' =
              IF cb = "simulateRecommendations" THEN MockRecommendations ELSE recommendations
        /\ qualityResult' =
              IF cb = "simulateQualityControl" THEN MockQuality ELSE qualityResult

TimerFires ==
    /\ Guided
    /\ \E i \in ExpirableTimers : Simulate(i)
    /\ download' = NoDownload
    /\ UNCHANGED <<variant, intake, uploadedAssetIds, chatMessages, userInput, isLoading,
                   stage, understanding, keyTakeaways, qualityScore, expandedSections,
                   showResults, calls>>

(***************************************************************************)
(* exportSummary                                                           *)
(***************************************************************************)
\* A text is a sequence of lines and a line a sequence of pieces.  A document
\* is held by a token; its title is this sequence of characters.
DocumentTitle(d) ==
    IF d = MockDocument THEN <<"A", "t", "t", " ", "I", "s">> ELSE <<"D", "-", "1", "!">>

Alphanumerics == {"A", "t", "I", "s", "D", "1"}

\* title.replace(/[^a-z0-9]/gi, '_')  (page.tsx:341)
Sanitized(chars) ==
    [k \in DOMAIN chars |-> IF chars[k] \in Alphanumerics THEN chars[k] ELSE "_"]

\* keyTakeaways.map((k, i) => `${i + 1}. ${k.point}`)  (page.tsx:331)
NumberedLines(points) == [k \in DOMAIN points |-> <<ToString(k), ". ", points[k]>>]

\* recommendations.map(r => `- ${r.title} (${r.year})`)  (page.tsx:335)
BulletLines(recs) == [k \in DOMAIN recs |-> <<"- ", ToString(recs[k])>>]

\* the markdown text page.tsx:321-336 builds; the held documents carry authors
\* and the held understanding carries a problem statement
ExportContent ==
    <<<<"# ">> \o DocumentTitle(documentInfo), <<>>>>
    \o <<<<"**Authors:** ", documentInfo>>, <<>>>>
    \o (IF understanding # Null
        THEN <<<<"## Problem Statement">>, <<understanding>>, <<>>>>
        ELSE <<>>)
    \o (IF Len(keyTakeaways) > 0
        THEN <<<<"## Key Takeaways">>>> \o NumberedLines(keyTakeaways) \o <<<<>>>>
        ELSE <<>>)
    \o (IF Len(recommendations) > 0
        THEN <<<<"## Related Papers">>>> \o BulletLines(recommendations)
        ELSE <<>>)

\* page.tsx:318-345: nothing when documentInfo is unset, else the file
\* <sanitized title>_summary.md
ExportedFile ==
    IF documentInfo = Null THEN NoDownload
    ELSE [name |-> Sanitized(DocumentTitle(documentInfo)) \o <<"_summary.md">>,
          content |-> ExportContent]

\* part_000:520-531: nothing when summaryResult is unset, else summary.md with
\* a fixed heading, the summary and its key points
ExportedFileG ==
    IF summaryResult = Null THEN NoDownload
    ELSE [name |-> <<"summary.md">>,
          content |-> <<<<"# Research Paper Summary">>, <<>>, <<summaryResult>>, <<>>,
                        <<"## Key Points">>, <<"- ", summaryResult, " key points">>>>]

\* a click on the Export button of the summary card (page.tsx:698-701,
\* part_000:811)
ExportSummary ==
    /\ SummaryCardShown
    /\ download' = (IF Five THEN ExportedFile ELSE ExportedFileG)
    /\ UNCHANGED <<held, calls>>

NextGuided ==
    \/ AnalyzeForm
    \/ AnalyzeFormSettles
    \/ SendMessageG
    \/ SendMessageSettlesG
    \/ TimerFires

NextFive ==
    \/ ResetAnalysis
    \/ AnalyzeDocument
    \/ UploadSettles
    \/ InitialTurnSettles
    \/ SendMessage
    \/ LaterTurnSettles

NextForm ==
    \/ HandleFileChange
    \/ HandleDrop
    \/ SetDoiInput
    \/ SetArxivInput
    \/ SetUserInput
    \/ ClickQuickPrompt
    \/ ToggleSection
    \/ ExportSummary

Next == NextForm \/ NextFive \/ NextGuided

Spec == Init /\ [][Next]_vars

\* a pending setTimeout callback of the mounted component is eventually run
SpecFair == Spec /\ WF_vars(TimerFires)

(***************************************************************************)
(* Properties                                                              *)
(***************************************************************************)
\* successful coordinator replies, by whether they carry aggregated_results
RepliesWithAggregated ==
    {r \in Replies : ReplyOk(r) /\ r.result.aggregated_results.defined}

RepliesWithoutAggregated ==
    {r \in Replies :
        ReplyOk(r) /\ r.result.defined /\ ~r.result.aggregated_results.defined}

\* uploadFiles outcomes that are not a success
FailedUploads == {r \in UploadResults : r.kind = "rejected" \/ ~r.success}

\* a coordinator call of the five-stage component settles with r
CoordinatorSettlesWith(i, r) ==
    InitialTurnSettlesWith(i, r) \/ LaterTurnSettlesWith(i, r)

\* a coordinator call of the guided component settles with r
CoordinatorSettlesWithG(i, r) ==
    AnalyzeFormSettlesWith(i, r) \/ SendMessageSettlesWithG(i, r)

\* a failure exit of analyzeDocument: the upload did not succeed, or the first
\* coordinator call rejected
AnalyzeDocumentFails ==
    \E i \in DOMAIN calls :
        \/ \E r \in FailedUploads : UploadSettlesWith(i, r)
        \/ \E r \in Replies : r.kind = "rejected" /\ InitialTurnSettlesWith(i, r)

\* the calls issued by the step
IssuedCalls == Range(calls') \ Range(calls)

------------------------------------------------------------------------------
------------------------------------------------------------------------------
\* C2: once the stage is complete, only resetAnalysis changes it, and a
\* sendMessage reply that carries aggregated results makes no setStage call
\* with a value other than complete.
C2_CompleteStaysComplete ==
    [][stage = "complete" =>
          \/ ResetAnalysis
          \/ /\ stage' = "complete"
             /\ \A i \in DOMAIN calls : \A r \in RepliesWithAggregated :
                   LaterTurnSettlesWith(i, r)
                   => \A k \in DOMAIN SendReplyStageWrites(r) :
                         SendReplyStageWrites(r)[k] = "complete"]_vars

------------------------------------------------------------------------------
------------------------------------------------------------------------------
------------------------------------------------------------------------------
\* C5: every successful coordinator reply that carries aggregated results, on
\* the initial turn or on a later turn, ends with the stage complete.
C5_AggregatedReplyCompletes ==
    [][\A i \in DOMAIN calls : \A r \in RepliesWithAggregated :
          CoordinatorSettlesWith(i, r) => stage' = "complete"]_vars

------------------------------------------------------------------------------
\* the ready predicate as C6 states it: a file is held, or the DOI or the
\* arXiv string is non-empty after trimming
ReadyAfterTrim ==
    pdfFile # Null \/ Trim(doiInput) # <<>> \/ Trim(arxivInput) # <<>>

\* C6: submitting while no file is held and the DOI and arXiv strings are
\* empty or whitespace only issues no call and changes no state.
C6_BlankSubmissionDoesNothing ==
    [][(~ReadyAfterTrim /\ (AnalyzeDocument \/ AnalyzeForm)) => UNCHANGED <<held, calls>>]_vars

------------------------------------------------------------------------------
\* C7: a coordinator call issued while asset ids are held carries all of them.
C7_CallsCarryHeldAssetIds ==
    [][\A c \in IssuedCalls :
          c.kind = "coordinator" => Range(uploadedAssetIds) \subseteq Range(c.assets)]_vars

------------------------------------------------------------------------------
\* C8: at most one upload call and at most one coordinator call are in flight.
C8_OneCallInFlight ==
    /\ Cardinality(UploadsInFlight) <= 1
    /\ Cardinality(CoordinatorsInFlight) <= 1

\* a call is in flight after resetAnalysis and a reference is entered again:
\* the Analyze Paper button is disabled by the loading flag
C8_InFlightAcrossReset ==
    /\ Five
    /\ stage = "idle"
    /\ calls # <<>>
    /\ ~NoReference
    /\ AnalyzeDisabled

------------------------------------------------------------------------------
\* C9: whenever no call is in flight the loading flag is false.
C9_IdleMeansNotLoading ==
    (Mounted /\ calls = <<>>) => ~isLoading

------------------------------------------------------------------------------
\* C10: sendMessage invoked while the loading flag is set or the draft is
\* empty after trimming issues no call and changes nothing.
C10_RejectedSendChangesNothing ==
    [][((Trim(userInput) = <<>> \/ isLoading) /\ (SendMessage \/ SendMessageG))
          => UNCHANGED <<held, calls>>]_vars

\* the conversation panel is shown with a draft of whitespace only
C10_WhitespaceDraft ==
    /\ Five
    /\ stage = "conversation"
    /\ ~isLoading
    /\ userInput = <<" ">>

------------------------------------------------------------------------------
\* C11: when the upload resolves with success false, the stage ends at idle,
\* the log is exactly one assistant turn carrying the failure, the asset id
\* list is empty, the loading flag is cleared and no coordinator call is issued.
C11_UploadFailureLeavesCleanIdle ==
    [][\A i \in DOMAIN calls : \A r \in UploadResults :
          (r.kind = "resolved" /\ ~r.success /\ UploadSettlesWith(i, r))
          => /\ stage' = "idle"
             /\ chatMessages' = <<Turn("assistant", UploadFailedText(r.error))>>
             /\ uploadedAssetIds' = <<>>
             /\ ~isLoading'
             /\ IssuedCalls = {}]_vars

------------------------------------------------------------------------------
\* coordinator outcomes that are not a success: a rejection, or a reply whose
\* status does not say success
FailedReplies == {r \in Replies : ~ReplyOk(r)}

\* the fixed texts the components have for a failure
FailureTexts == {StartIssueText, UploadErrorText, RequestIssueText, ErrorText}

\* C12: when a coordinator call is rejected or returns a non-success status,
\* exactly one fixed-text assistant turn is appended, the stage is as it was
\* when the call was issued, no held result changes, and sendMessage is
\* available again (panel shown, loading flag cleared).
C12_FailedCallLeavesSessionOpen ==
    [][\A i \in DOMAIN calls : \A r \in FailedReplies :
          (CoordinatorSettlesWith(i, r) \/ CoordinatorSettlesWithG(i, r))
          => /\ \E t \in FailureTexts :
                   chatMessages' = Append(chatMessages, Turn("assistant", t))
             /\ UNCHANGED <<stage, currentStage, results, resultsG>>
             /\ ConversationShown'
             /\ ~isLoading']_vars

------------------------------------------------------------------------------
\* successful replies whose result payload is missing
RepliesWithoutPayload == {r \in Replies : ReplyOk(r) /\ ~r.result.defined}

\* C13: a reply with success status whose result payload is missing is a soft
\* failure, on the initial turn and on later turns: a generic assistant turn
\* is appended to the log, the stage is unchanged and the conversation stays
\* open for another message.
C13_MissingPayloadIsSoftFailure ==
    [][\A i \in DOMAIN calls : \A r \in RepliesWithoutPayload :
          CoordinatorSettlesWith(i, r)
          => /\ \E t \in FailureTexts \cup {FocusPromptText, ProcessingText} :
                   chatMessages' = Append(chatMessages, Turn("assistant", t))
             /\ stage' = stage
             /\ ConversationShown'
             /\ ~isLoading']_vars

------------------------------------------------------------------------------
\* a call of either component settles with a failure outcome: the upload does
\* not succeed, or the coordinator call is rejected or answers without success
FailureSettles ==
    \E i \in DOMAIN calls :
        \/ \E r \in FailedUploads : UploadSettlesWith(i, r)
        \/ \E r \in FailedReplies :
              CoordinatorSettlesWith(i, r) \/ CoordinatorSettlesWithG(i, r)

\* C14: every failure outcome, in both components, puts an assistant turn
\* reporting it at the end of the conversation log.
C14_FailureIsReportedInLog ==
    [][FailureSettles =>
          /\ chatMessages' # <<>>
          /\ chatMessages'[Len(chatMessages')].role = "assistant"
          /\ chatMessages'[Len(chatMessages')].content
                \in FailureTexts \cup {UploadFailedText(r.error) : r \in FailedUploads}]_vars

------------------------------------------------------------------------------
IsPrefix(a, b) == Len(a) <= Len(b) /\ SubSeq(b, 1, Len(a)) = a

\* C15: the conversation log is append-only: after every operation other than
\* resetAnalysis the previous log is a prefix of the new log.
C15_LogIsAppendOnly ==
    [][ResetAnalysis \/ IsPrefix(chatMessages, chatMessages')]_vars

------------------------------------------------------------------------------
\* an upload settles with success
UploadSucceeds ==
    \E i \in DOMAIN calls : \E r \in UploadResults \ FailedUploads : UploadSettlesWith(i, r)

\* C16: the asset id list is empty until an upload has succeeded, and once it
\* is non-empty only resetAnalysis changes it.
C16_AssetIdsFixedOnceSet ==
    [][/\ (uploadedAssetIds = <<>> /\ uploadedAssetIds' # <<>>) => UploadSucceeds
       /\ uploadedAssetIds # <<>>
             => (ResetAnalysis \/ uploadedAssetIds' = uploadedAssetIds)]_vars

------------------------------------------------------------------------------
\* C17: an upload call is issued only for a submission that holds a file, and
\* not again once an upload has been made since the last reset: in particular
\* none is issued while the asset ids of an earlier upload are held.
C17_OneUploadBetweenResets ==
    [][\A c \in IssuedCalls :
          c.kind = "upload" => (c.file # Null /\ uploadedAssetIds = <<>>)]_vars

------------------------------------------------------------------------------
\* C18: resetAnalysis is one step, and right after it the file, DOI and arXiv
\* inputs, the asset id list, the log and the draft are empty, the stage is
\* idle, every result is unset and the expanded sections are {problem}.
C18_ResetClearsSessionInOneStep ==
    [][ResetAnalysis =>
          /\ pdfFile' = Null /\ doiInput' = <<>> /\ arxivInput' = <<>>
          /\ uploadedAssetIds' = <<>>
          /\ chatMessages' = <<>>
          /\ userInput' = <<>>
          /\ stage' = "idle"
          /\ documentInfo' = Null /\ understanding' = Null /\ keyTakeaways' = <<>>
          /\ recommendations' = <<>> /\ qualityScore' = Null
          /\ expandedSections' = {"problem"}]_vars

\* the session has been reset while a sendMessage call was in flight: the
\* log that held the user's turn and everything else listed is cleared
C18_ResetWithCallInFlight ==
    /\ Five
    /\ stage = "idle"
    /\ calls # <<>>
    /\ calls[1].handler = "sendMessage"
    /\ NoReference
    /\ uploadedAssetIds = <<>>
    /\ chatMessages = <<>>
    /\ userInput = <<>>
    /\ results = <<Null, Null, <<>>, <<>>, Null>>
    /\ expandedSections = {"problem"}

------------------------------------------------------------------------------
\* call i of the five-stage component settles
SettlesFive(i) ==
    \/ \E r \in UploadResults : UploadSettlesWith(i, r)
    \/ \E r \in Replies : CoordinatorSettlesWith(i, r)

\* C19: a call still in flight after resetAnalysis (the stage is idle while it
\* is in flight) changes nothing of the new session when it completes: the
\* stage stays idle, the log and the asset id list stay empty and no result is
\* populated.
C19_StaleCompletionChangesNothing ==
    [][\A i \in DOMAIN calls :
          (Five /\ stage = "idle" /\ SettlesFive(i))
          => /\ stage' = "idle"
             /\ chatMessages' = <<>>
             /\ uploadedAssetIds' = <<>>
             /\ UNCHANGED results]_vars

------------------------------------------------------------------------------
\* C20: in the guided pipeline every completed stage is before or equal to the
\* current stage in the order upload < parsing < understanding < summarizing
\* < finding_papers < quality_check < complete.
C20_CompletedStagesNotAfterCurrent ==
    Guided => \A s \in stagesCompleted : PipelineRank(s) <= PipelineRank(currentStage)

------------------------------------------------------------------------------
\* C21: in the guided pipeline the current-stage pointer only moves forward
\* in the order upload, parsing, understanding, summarizing, finding_papers,
\* quality_check, complete, whatever the interleaving of coordinator replies
\* and simulate* callbacks.
C21_CurrentStageOnlyMovesForward ==
    [][Guided => PipelineRank(currentStage) <= PipelineRank(currentStage')]_vars

------------------------------------------------------------------------------
\* C22: in the guided pipeline every stage strictly before the current stage,
\* the initial stage upload included, is in the completed set.
C22_StagesBeforeCurrentAreCompleted ==
    Guided => \A s \in Range(PipelineOrder) :
                 PipelineRank(s) < PipelineRank(currentStage) => s \in stagesCompleted

------------------------------------------------------------------------------
\* C23: the completed-stage set grows monotonically: no step removes a stage
\* from stagesCompleted once it has been added.
C23_CompletedStagesOnlyGrow ==
    [][stagesCompleted \subseteq stagesCompleted']_vars

\* two stages were completed and a later reply has set the pointer back to
\* parsing: the completed stages are still held
C23_CompletedKeptWhenPointerSetBack ==
    /\ Guided
    /\ {"parsing", "understanding"} \subseteq stagesCompleted
    /\ currentStage = "parsing"

------------------------------------------------------------------------------
\* C24: the held recommendation list is in ascending rank order with ranks
\* exactly 1..N, whatever order the payload delivered.
C24_RecommendationsInRankOrder ==
    \A k \in DOMAIN recommendations : recommendations[k] = k

------------------------------------------------------------------------------
\* C25: when the first coordinator call of a submission that held a file
\* settles with a successful reply without aggregated results, the stage is
\* conversation, the log is exactly the synthesized user turn followed by the
\* assistant turn with the reply's message, the asset ids the upload returned
\* are stored, every result is unset and the loading flag is cleared.
\* (Stated for a reply that carries a message; for an empty message the code
\* writes FocusPromptText instead.)
C25_FileSubmissionEndsInConversation ==
    [][\A i \in DOMAIN calls : \A r \in RepliesWithoutAggregated :
          (/\ InitialTurnSettlesWith(i, r)
           /\ calls[i].file # Null
           /\ r.result.user_message # NoText)
          => /\ stage' = "conversation"
             /\ chatMessages' = <<Turn("user", calls[i].utterance),
                                  Turn("assistant", r.result.user_message)>>
             /\ calls[i].assets # <<>>
             /\ uploadedAssetIds' = calls[i].assets
             /\ documentInfo' = Null /\ understanding' = Null
             /\ keyTakeaways' = <<>> /\ recommendations' = <<>>
             /\ qualityScore' = Null
             /\ ~isLoading']_vars

------------------------------------------------------------------------------
\* uploadFiles outcomes that report success
SuccessfulUploads == {r \in UploadResults : r.kind = "resolved" /\ r.success}

\* the step handles a successful return of an upload in flight
UploadReturnsSuccess ==
    \E i \in UploadsInFlight : \E r \in SuccessfulUploads : UploadSettlesWith(i, r)

\* C26: when a file is held, no coordinator call is issued before the upload
\* has returned success (the call is issued by the step that handles the
\* successful return, or asset ids of a successful upload are already held),
\* and while the upload is awaited the only coordinator call issued is the
\* synthesized initial turn, never a typed message.
C26_CoordinatorCallWaitsForUpload ==
    [][\A c \in IssuedCalls :
          (Five /\ c.kind = "coordinator")
          => /\ pdfFile # Null => (UploadReturnsSuccess \/ uploadedAssetIds # <<>>)
             /\ UploadsInFlight # {}
                => /\ UploadReturnsSuccess
                   /\ c.handler = "analyzeDocument"
                   /\ c.utterance = InitialMessage(c.file, c.doi, c.arxiv)]_vars

------------------------------------------------------------------------------
\* C27: the expanded-section set is changed only by toggleSection, which
\* flips one key, and by resetAnalysis, which puts it back to {problem};
\* analyzeDocument, sendMessage and every upload or coordinator outcome leave
\* it unchanged.
C27_ExpandedSectionsFrame ==
    [][expandedSections' # expandedSections
       => \/ ResetAnalysis /\ expandedSections' = {"problem"}
          \/ /\ ToggleSection
             /\ \E k \in Sections :
                   (expandedSections' \ expandedSections)
                   \cup (expandedSections \ expandedSections') = {k}]_vars

\* sections were toggled away from the default, results are held and a
\* sendMessage call is in flight
C27_ToggledAroundSendMessage ==
    /\ Five
    /\ stage = "complete"
    /\ documentInfo # Null
    /\ expandedSections = {"methodology"}
    /\ \E i \in CoordinatorsInFlight : calls[i].handler = "sendMessage"

------------------------------------------------------------------------------
\* C28: while the stage is not idle the held file, DOI and arXiv values do
\* not change, except by resetAnalysis: no intake field can be edited once a
\* submission has been accepted, until a reset or a failure puts the stage
\* back at idle.
C28_IntakeFrozenWhileNotIdle ==
    [][(Five /\ stage # "idle" /\ intake' # intake) => ResetAnalysis]_vars

\* a submission holding a file and an arXiv id was accepted and answered: the
\* conversation is open and both references are still held
C28_ReferencesHeldInConversation ==
    /\ Five
    /\ stage = "conversation"
    /\ pdfFile # Null
    /\ arxivInput # <<>>
    /\ uploadedAssetIds # <<>>
    /\ Len(chatMessages) >= 2
    /\ calls = <<>>

------------------------------------------------------------------------------
\* C29: a held quality score is non-null only when a payload supplied a
\* quality_validation.quality_score value: it is never the missing value of a
\* quality_validation object without quality_score.
C29_QualityScoreHeldOnlyWhenSupplied ==
    qualityScore # Null => qualityScore # Undefined

------------------------------------------------------------------------------
\* C30: exportSummary produces no file when documentInfo is unset, whatever
\* other results are held, and when documentInfo is set it produces a file
\* whose first line is the document title (as a markdown heading or bare).
C30_ExportStartsWithTitle ==
    [][ExportSummary
       => IF documentInfo = Null
          THEN download' = NoDownload
          ELSE /\ download' # NoDownload
               /\ Head(download'.content) \in
                     {DocumentTitle(documentInfo), <<"# ">> \o DocumentTitle(documentInfo)}]_vars

------------------------------------------------------------------------------
\* C31 as stated: wherever the upload zone is shown, a file arriving through
\* the picker or through a drop becomes the held file, whatever its type.
C31_AnyArrivingFileReplacesHeld ==
    UploadZoneShown
    => \A f \in Files : HeldAfterFileChange(f) = f /\ HeldAfterDrop(f) = f

\* C31 (amended): a picked file becomes the held file whatever its type; a
\* dropped file becomes the held file only when its type is application/pdf,
\* and a dropped file of another type leaves the held file as it was.
C31_DropTakesOnlyPdf ==
    UploadZoneShown
    => \A f \in Files :
          /\ HeldAfterFileChange(f) = f
          /\ HeldAfterDrop(f) = (IF f = "paper.pdf" THEN f ELSE pdfFile)

\* a file that is not a PDF is held: it came through the picker
C31_NonPdfHeld ==
    /\ pdfFile = "notes.txt"
    /\ UploadZoneShown

------------------------------------------------------------------------------
\* C32: when the aggregated_results of a reply to sendMessage contains a
\* summary object without key_points, the key-takeaway list becomes the empty
\* list; when it contains no summary object, the list keeps its value.
C32_TakeawaysDefaultToEmpty ==
    [][\A i \in DOMAIN calls : \A r \in RepliesWithAggregated :
          LaterTurnSettlesWith(i, r)
          => LET summary == r.result.aggregated_results.summary IN
             /\ (summary.defined /\ ~summary.key_points.defined) => keyTakeaways' = <<>>
             /\ ~summary.defined => keyTakeaways' = keyTakeaways]_vars

\* takeaways and recommendations are held without a document: they came in
\* two partial payloads, and the one without a summary object left the
\* takeaways alone
C32_TakeawaysKeptBesideRecommendations ==
    /\ Five
    /\ keyTakeaways = <<"k1", "k2">>
    /\ recommendations # <<>>
    /\ documentInfo = Null

------------------------------------------------------------------------------
\* successful replies that carry a result payload
RepliesWithPayload == {r \in Replies : ReplyOk(r) /\ r.result.defined}

\* C33: on every successful coordinator reply, in all four handlers, the
\* appended assistant turn has a text: the reply's user_message when it is
\* present, and otherwise not the absent text.
C33_AssistantTurnHasText ==
    [][\A i \in DOMAIN calls : \A r \in RepliesWithPayload :
          (CoordinatorSettlesWith(i, r) \/ CoordinatorSettlesWithG(i, r))
          => \E t \in {r.result.user_message, FocusPromptText, ProcessingText} :
                /\ t # NoText
                /\ r.result.user_message # NoText => t = r.result.user_message
                /\ chatMessages' = Append(chatMessages, Turn("assistant", t))]_vars

------------------------------------------------------------------------------
\* C34: in the five-stage variant an accepted sendMessage appends the user
\* turn when it issues its call, and one assistant turn when the call ends,
\* whatever the outcome (success, soft failure or rejection).
C34_SendMessageAddsTwoTurns ==
    [][/\ (SendMessage /\ ~(Trim(userInput) = <<>> \/ isLoading))
          => /\ chatMessages' = Append(chatMessages, Turn("user", Trim(userInput)))
             /\ Cardinality(IssuedCalls) = 1
       /\ \A i \in DOMAIN calls : \A r \in Replies :
             LaterTurnSettlesWith(i, r)
             => \E t \in {r.result.user_message, ProcessingText, RequestIssueText, ErrorText} :
                   chatMessages' = Append(chatMessages, Turn("assistant", t))]_vars

------------------------------------------------------------------------------
\* C35: in the five-stage variant the stage analyzing is transient: the
\* handler that sets it sets complete before it yields, so the stage is
\* analyzing in no state between handler runs.
C35_AnalyzingIsNeverObserved ==
    Five => stage # "analyzing"

\* the aggregator has run: the stage is complete and the results of a full
\* payload are held
C35_AggregatorRanToComplete ==
    /\ Five
    /\ stage = "complete"
    /\ documentInfo # Null
    /\ understanding # Null
    /\ recommendations # <<>>
    /\ calls = <<>>

------------------------------------------------------------------------------
\* C36: in the five-stage variant a coordinator call is issued only at the
\* stage conversation, analyzing or complete: the stage the handler run that
\* issues the call leaves is never idle or uploading.
C36_CoordinatorCallsOnlyInConversation ==
    [][\A c \in IssuedCalls :
          (Five /\ c.kind = "coordinator")
          => stage' \in {"conversation", "analyzing", "complete"}]_vars

\* the first call of a submission without a file is in flight: the handler
\* went from idle through uploading to conversation before issuing it
C36_InitialCallWithoutUpload ==
    /\ Five
    /\ stage = "conversation"
    /\ \E i \in CoordinatorsInFlight :
          calls[i].handler = "analyzeDocument" /\ calls[i].file = Null

------------------------------------------------------------------------------
\* C37: resetAnalysis leaves the loading flag unchanged, and when the call it
\* left in flight (the stage is idle while it is in flight) has resolved, the
\* flag is false and a new submission can be started: the upload zone is shown.
C37_LoadingClearsAfterResetCall ==
    [][/\ ResetAnalysis => isLoading' = isLoading
       /\ \A i \in DOMAIN calls :
             (Five /\ stage = "idle" /\ SettlesFive(i))
             => ~isLoading' /\ UploadZoneShown']_vars

------------------------------------------------------------------------------
\* C38: in the guided pipeline, once a reply with next_action =
\* trigger_ingestion has been processed (a simulate* timer is pending), the
\* chain runs to its end: with the timers firing fairly the current stage
\* eventually is complete.
C38_ChainRunsToComplete ==
    (Guided /\ timers # <<>>) ~> (currentStage = "complete")

------------------------------------------------------------------------------
\* C39: in the guided pipeline, whenever the current stage is complete, the
\* completed set is {parsing, understanding, summarizing, finding_papers,
\* quality_check} and the document info, the understanding result, the
\* summary and the recommendation list are populated.
C39_CompleteMeansEverythingDone ==
    (Guided /\ currentStage = "complete")
    => /\ stagesCompleted = {"parsing", "understanding", "summarizing",
                             "finding_papers", "quality_check"}
       /\ documentInfo # Null
       /\ understandingResult # Null
       /\ summaryResult # Null
       /\ recommendations # <<>>

\* a chain has run to its end and no timer is pending
C39_ChainFinished ==
    /\ Guided
    /\ currentStage = "complete"
    /\ qualityResult # Null
    /\ timers = <<>>

------------------------------------------------------------------------------
\* C40: toggleSection(k) flips the membership of k in the expanded-section
\* set and of no other key, so applying it twice with the same key gives back
\* the set it started from.
C40_ToggleTwiceRestores ==
    \A k \in Sections :
       LET once == Toggled(expandedSections, k) IN
       /\ (k \in once) # (k \in expandedSections)
       /\ once \ {k} = expandedSections \ {k}
       /\ Toggled(once, k) = expandedSections

\* in the guided component both sections were toggled: the default one is
\* collapsed and the other one expanded
C40_BothSectionsToggled ==
    /\ Guided
    /\ SummaryCardShown
    /\ expandedSections = {"methodology"}

====
